---- MODULE Spec2Model ----
(***************************************************************************)
(* A model of tecken's symbol upload pipeline (tecken/upload/views.py):    *)
(* the archive listing validator, the bucket resolver and the upload       *)
(* orchestration of upload_archive with its pool of member-upload tasks.   *)
(* Strings are TLA+ strings; characters are strings of length one.         *)
(***************************************************************************)
EXTENDS Integers, Sequences, FiniteSets, Bags, TLC

(***************************************************************************)
(* Python string primitives used by the code.                              *)
(***************************************************************************)

\* Python's  sub in s
Contains(s, sub) ==
    \E i \in 1..(Len(s) - Len(sub) + 1) : SubSeq(s, i, i + Len(sub) - 1) = sub

\* Python's  s.endswith(suffix)
EndsWith(s, suffix) ==
    /\ Len(suffix) <= Len(s)
    /\ SubSeq(s, Len(s) - Len(suffix) + 1, Len(s)) = suffix

\* The characters of s.
Chars(s) == { SubSeq(s, i, i) : i \in 1..Len(s) }

UpperLetters == "ABCDEFGHIJKLMNOPQRSTUVWXYZ"
LowerLetters == "abcdefghijklmnopqrstuvwxyz"

\* The lower-case letter of every upper-case letter.
LowerOf ==
    [c \in Chars(UpperLetters) |->
        LET i == CHOOSE k \in 1..Len(UpperLetters) : SubSeq(UpperLetters, k, k) = c
        IN  SubSeq(LowerLetters, i, i)]

LowerChar(c) == IF c \in DOMAIN LowerOf THEN LowerOf[c] ELSE c

\* Python's  s.lower()
RECURSIVE Lower(_)
Lower(s) ==
    IF Len(s) = 0 THEN ""
    ELSE LowerChar(SubSeq(s, 1, 1)) \o Lower(SubSeq(s, 2, Len(s)))

\* Position of the first "/" of s, 0 when there is none.
FirstSlash(s) ==
    IF \E i \in 1..Len(s) : SubSeq(s, i, i) = "/"
    THEN CHOOSE i \in 1..Len(s) :
            /\ SubSeq(s, i, i) = "/"
            /\ \A j \in 1..(i - 1) : SubSeq(s, j, j) # "/"
    ELSE 0

\* Python's  s.split("/") : a sequence of strings, never empty.
RECURSIVE Split(_)
Split(s) ==
    LET p == FirstSlash(s)
    IN  IF p = 0 THEN <<s>>
        ELSE <<SubSeq(s, 1, p - 1)>> \o Split(SubSeq(s, p + 1, Len(s)))

\* Python's  repr(s)  of a str: single quotes, unless the string holds a
\* single quote and no double quote.  The backslash escapes of repr concern
\* backslashes, quotes and unprintable characters only.
Repr(s) ==
    IF Contains(s, "'") /\ ~Contains(s, "\"")
    THEN "\"" \o s \o "\""
    ELSE "'" \o s \o "'"

(***************************************************************************)
(* The archive listing validator.                                          *)
(***************************************************************************)

\* Python's None where a str or a list may stand (PyNone, below, where an
\* object may).
None == "<None>"

\* _not_hex_characters = re.compile(r"[^a-f0-9]", re.I)
HexChars == Chars("0123456789abcdefABCDEF")

\* The pattern compiled without re.I: upper-case digits count as not hex.
NotHexFindall_CaseSensitive(s) ==
    { i \in 1..Len(s) : SubSeq(s, i, i) \notin Chars("0123456789abcdef") }

NotHexFindall(s) == { i \in 1..Len(s) : SubSeq(s, i, i) \notin HexChars }

_ignorable_filenames == {".DS_Store"}

\* tecken.base.utils.invalid_key_name_characters: whether the would-be key
\* holds a character that is not allowed in a storage key.
IllegalKeyChars == Chars("^~<>#|{}[]%")

invalid_key_name_characters(key) == Chars(key) \cap IllegalKeyChars # {}

SnippetMessage(snippet) ==
    "Content of archive file contains the snippet '" \o snippet
        \o "' which is not allowed"

InvalidCharMessage(name) == "Invalid character in filename " \o Repr(name)

UnrecognizedMessage(name) ==
    "Unrecognized file pattern. Should only be <module>/<hex>/<file> "
        \o "or <name>-symbols.txt and nothing else. "
        \o "(First unrecognized pattern was " \o name \o ")"

\* The inner loop over settings.DISALLOWED_SYMBOLS_SNIPPETS for one member:
\* the index of the first snippet the name contains, 0 when there is none.
FirstSnippet(name, snippets) ==
    IF \E k \in 1..Len(snippets) : Contains(name, snippets[k])
    THEN CHOOSE k \in 1..Len(snippets) :
            /\ Contains(name, snippets[k])
            /\ \A j \in 1..(k - 1) : ~Contains(name, snippets[j])
    ELSE 0

\* The member loop with the ignorable-filename test moved before the snippet
\* loop.
CheckMember_IgnorableFirst(name, snippets) ==
    LET k     == FirstSnippet(name, snippets)
        split == Split(name)
    IN  IF split[Len(split)] \in _ignorable_filenames THEN None
        ELSE IF k # 0 THEN SnippetMessage(snippets[k])
        ELSE IF Len(split) = 3
             THEN IF invalid_key_name_characters(split[1] \o split[3])
                  THEN InvalidCharMessage(name)
                  ELSE IF NotHexFindall(split[2]) = {} THEN None
                  ELSE UnrecognizedMessage(name)
        ELSE IF Len(split) = 1 /\ EndsWith(Lower(name), "-symbols.txt") THEN None
        ELSE UnrecognizedMessage(name)

\* The member loop with the hexadecimal test made before the test of the
\* key characters.
CheckMember_HexFirst(name, snippets) ==
    LET k     == FirstSnippet(name, snippets)
        split == Split(name)
    IN  IF k # 0 THEN SnippetMessage(snippets[k])
        ELSE IF split[Len(split)] \in _ignorable_filenames THEN None
        ELSE IF Len(split) = 3
             THEN IF NotHexFindall(split[2]) # {} THEN UnrecognizedMessage(name)
                  ELSE IF invalid_key_name_characters(split[1] \o split[3])
                  THEN InvalidCharMessage(name)
                  ELSE None
        ELSE IF Len(split) = 1 /\ EndsWith(Lower(name), "-symbols.txt") THEN None
        ELSE UnrecognizedMessage(name)

\* One pass of the body of the outer loop: the string returned for this
\* member, or None when the loop goes on to the next member ("continue").
CheckMember(name, snippets) ==
    LET k     == FirstSnippet(name, snippets)
        split == Split(name)
    IN  IF k # 0 THEN SnippetMessage(snippets[k])
        ELSE IF split[Len(split)] \in _ignorable_filenames THEN None
        ELSE IF Len(split) = 3
             THEN IF invalid_key_name_characters(split[1] \o split[3])
                  THEN InvalidCharMessage(name)
                  ELSE IF NotHexFindall(split[2]) = {} THEN None
                  ELSE UnrecognizedMessage(name)
        ELSE IF Len(split) = 1 /\ EndsWith(Lower(name), "-symbols.txt") THEN None
        ELSE UnrecognizedMessage(name)

\* The loop remembering the error instead of returning it: the last
\* violation is the one reported.
RECURSIVE CheckFrom_LastError(_, _, _)
CheckFrom_LastError(listing, snippets, i) ==
    IF i > Len(listing) THEN None
    ELSE LET e     == CheckMember(listing[i].name, snippets)
             later == CheckFrom_LastError(listing, snippets, i + 1)
         IN  IF later # None THEN later ELSE e

\* check_symbols_archive_file_listing: the members are visited in list order
\* and the first returned string ends the function; None when the loop ends.
RECURSIVE CheckFrom(_, _, _)
CheckFrom(listing, snippets, i) ==
    IF i > Len(listing) THEN None
    ELSE LET e == CheckMember(listing[i].name, snippets)
         IN  IF e # None THEN e ELSE CheckFrom(listing, snippets, i + 1)

check_symbols_archive_file_listing(listing, snippets) ==
    CheckFrom(listing, snippets, 1)

(***************************************************************************)
(* The bucket resolver.                                                    *)
(***************************************************************************)

\* Python values of the optional arguments: None, a bool or a str.
PyNone == [t |-> "none"]
PyBool(b) == [t |-> "bool", v |-> b]
PyStr(s) == [t |-> "str", v |-> s]

\* Python's truth value of such a value ("if x:", "bool(x)").
Truthy(x) ==
    CASE x.t = "none" -> FALSE
      [] x.t = "bool" -> x.v
      [] x.t = "str"  -> Len(x.v) > 0

\* fnmatch.fnmatch(s, pat) for patterns made of literal characters, "*" and
\* "?" (on POSIX normcase changes nothing); the whole of s must match.
RECURSIVE FnMatch(_, _)
FnMatch(s, pat) ==
    IF Len(pat) = 0 THEN Len(s) = 0
    ELSE LET c    == SubSeq(pat, 1, 1)
             rest == SubSeq(pat, 2, Len(pat))
         IN  IF c = "*"
             THEN \E k \in 0..Len(s) : FnMatch(SubSeq(s, k + 1, Len(s)), rest)
             ELSE /\ Len(s) > 0
                  /\ (c = "?" \/ c = SubSeq(s, 1, 1))
                  /\ FnMatch(SubSeq(s, 2, Len(s)), rest)

\* django.contrib.auth: user.has_perm(perm) of an active user.
has_perm(user, perm) == user.is_superuser \/ perm \in user.perms

\* Python's  "/".join(parts[from:])
RECURSIVE JoinFrom(_, _)
JoinFrom(parts, from) ==
    IF from > Len(parts) THEN ""
    ELSE IF from = Len(parts) THEN parts[from]
    ELSE parts[from] \o "/" \o JoinFrom(parts, from + 1)

\* What follows "://" in a url (the whole of it when there is none).
AfterScheme(url) ==
    LET at == { i \in 1..(Len(url) - 2) : SubSeq(url, i, i + 2) = "://" }
    IN  IF at = {} THEN url
        ELSE SubSeq(url, (CHOOSE i \in at : \A j \in at : i <= j) + 3, Len(url))

\* tecken.storage.StorageBucket: the bucket name is the first path segment of
\* what follows the scheme, the key prefix is the rest.
BucketName(url) == Split(AfterScheme(url))[1]
BucketPrefix(url) == JoinFrom(Split(AfterScheme(url)), 2)

\* StorageBucket(url, try_symbols=...)
StorageBucket(url, try_symbols) ==
    [url |-> url, try_symbols |-> try_symbols,
     name |-> BucketName(url), prefix |-> BucketPrefix(url)]

\* settings.UPLOAD_URL_EXCEPTIONS is a dict: a sequence of [key, url] in
\* declaration order, the keys distinct.
ExceptionKeys(exceptions) == { exceptions[i].key : i \in 1..Len(exceptions) }

ExceptionLookup(exceptions, key) ==
    LET i == CHOOSE k \in 1..Len(exceptions) : exceptions[k].key = key
    IN  exceptions[i].url

RECURSIVE PossibleFrom_NoWildcard(_, _, _)
\* The loop of get_possible_bucket_urls matching by equality only, the
\* fnmatch test left out.
PossibleFrom_NoWildcard(user, exceptions, i) ==
    IF i > Len(exceptions) THEN <<>>
    ELSE LET email_lower   == Lower(user.email)
             email_pattern == exceptions[i].key
             hit == \/ email_lower = Lower(email_pattern)
                    \/ user.is_superuser
         IN  (IF hit THEN <<exceptions[i].url>> ELSE <<>>)
                 \o PossibleFrom_NoWildcard(user, exceptions, i + 1)

\* get_possible_bucket_urls(user): the sequence of urls (first components).
RECURSIVE PossibleFrom(_, _, _)
PossibleFrom(user, exceptions, i) ==
    IF i > Len(exceptions) THEN <<>>
    ELSE LET email_lower   == Lower(user.email)
             email_pattern == exceptions[i].key
             hit == \/ email_lower = Lower(email_pattern)
                    \/ FnMatch(email_lower, Lower(email_pattern))
                    \/ user.is_superuser
         IN  (IF hit THEN <<exceptions[i].url>> ELSE <<>>)
                 \o PossibleFrom(user, exceptions, i + 1)

get_possible_bucket_urls(user, conf) ==
    LET urls == PossibleFrom(user, conf.UPLOAD_URL_EXCEPTIONS, 1)
    IN  IF urls = <<>> THEN <<conf.UPLOAD_DEFAULT_URL>> ELSE urls

\* The wildcard loop without its "break": the last match wins.
FirstWildcard_LastMatch(user, exceptions) ==
    LET hits == { k \in 1..Len(exceptions) :
                     FnMatch(Lower(user.email), Lower(exceptions[k].key)) }
    IN  IF hits = {} THEN None
        ELSE exceptions[CHOOSE k \in hits : \A j \in hits : k >= j].url

\* The wildcard loop of get_bucket_info: the url of the first pattern, in
\* declaration order, that matches; None when the loop ends without a match.
FirstWildcard(user, exceptions) ==
    LET hits == { k \in 1..Len(exceptions) :
                     FnMatch(Lower(user.email), Lower(exceptions[k].key)) }
    IN  IF hits = {} THEN None
        ELSE exceptions[CHOOSE k \in hits : \A j \in hits : k <= j].url

\* The flag derived as the permission itself, the "not" forgotten.
DeriveTrySymbols_NotForgotten(user, try_arg) ==
    IF try_arg = PyNone
    THEN PyBool(has_perm(user, "upload.upload_symbols"))
    ELSE try_arg

\* "if try_symbols is None: try_symbols = not user.has_perm(...)"
DeriveTrySymbols(user, try_arg) ==
    IF try_arg = PyNone
    THEN PyBool(~has_perm(user, "upload.upload_symbols"))
    ELSE try_arg

\* The two settings the wrong way round.
CandidateUrl_Swapped(try_symbols, conf) ==
    IF Truthy(try_symbols) THEN conf.UPLOAD_DEFAULT_URL
    ELSE conf.UPLOAD_TRY_SYMBOLS_URL

\* "if try_symbols: url = UPLOAD_TRY_SYMBOLS_URL else: url = UPLOAD_DEFAULT_URL"
CandidateUrl(try_symbols, conf) ==
    IF Truthy(try_symbols) THEN conf.UPLOAD_TRY_SYMBOLS_URL
    ELSE conf.UPLOAD_DEFAULT_URL

\* get_bucket_info(user, try_symbols, preferred_bucket_name): the bucket
\* returned, or the exception raised.
get_bucket_info(user, try_arg, preferred, conf) ==
    LET try_symbols == DeriveTrySymbols(user, try_arg)
        url0 == CandidateUrl(try_symbols, conf)
        exceptions == conf.UPLOAD_URL_EXCEPTIONS
    IN  IF Truthy(preferred)
        THEN LET urls == get_possible_bucket_urls(user, conf)
                 hits == { k \in 1..Len(urls) : Contains(urls[k], preferred.v) }
             IN  IF hits = {}
                 THEN [raised |-> "NoPossibleBucketName", arg |-> preferred.v]
                 ELSE [raised |-> None,
                       bucket |-> StorageBucket(
                           urls[CHOOSE k \in hits : \A j \in hits : k <= j],
                           try_symbols)]
        ELSE LET exception ==
                     IF Lower(user.email) \in ExceptionKeys(exceptions)
                     THEN ExceptionLookup(exceptions, Lower(user.email))
                     ELSE FirstWildcard(user, exceptions)
                 url == IF exception # None /\ Len(exception) > 0
                        THEN exception ELSE url0
             IN  [raised |-> None, bucket |-> StorageBucket(url, try_symbols)]

(***************************************************************************)
(* Helpers of upload_archive.                                              *)
(***************************************************************************)

\* os.path.basename(filename)
Basename(filename) == LET parts == Split(filename) IN parts[Len(parts)]

\* os.path.join(a, b) on POSIX: an absolute b discards a.
OsPathJoin(a, b) ==
    IF Len(b) > 0 /\ SubSeq(b, 1, 1) = "/" THEN b
    ELSE IF Len(a) = 0 \/ EndsWith(a, "/") THEN a \o b
    ELSE a \o "/" \o b

Whitespace == { " ", "\t", "\n", "\r" }

\* Python's  s.strip()
RECURSIVE Strip(_)
Strip(s) ==
    IF Len(s) = 0 THEN s
    ELSE IF SubSeq(s, 1, 1) \in Whitespace THEN Strip(SubSeq(s, 2, Len(s)))
    ELSE IF SubSeq(s, Len(s), Len(s)) \in Whitespace THEN Strip(SubSeq(s, 1, Len(s) - 1))
    ELSE s

\* The member filter with the suffix test forgotten.
_ignore_member_file_BasenameOnly(filename) ==
    Basename(filename) \in _ignorable_filenames

\* _ignore_member_file(filename)
_ignore_member_file(filename) ==
    \/ EndsWith(Lower(filename), "-symbols.txt")
    \/ Basename(filename) \in _ignorable_filenames

\* "prefix = settings.SYMBOL_FILE_PREFIX; if bucket_info.prefix: ..."
KeyPrefix(bucket, conf) ==
    IF Len(bucket.prefix) > 0
    THEN bucket.prefix \o "/" \o conf.SYMBOL_FILE_PREFIX
    ELSE conf.SYMBOL_FILE_PREFIX

\* key_name = os.path.join(prefix, member.name)
KeyName(bucket, conf, name) == OsPathJoin(KeyPrefix(bucket, conf), name)

\* symbol_key = tuple(member.name.split("/")[:2])
SymbolKey(name) ==
    LET parts == Split(name)
    IN  IF Len(parts) >= 2 THEN <<parts[1], parts[2]>> ELSE <<parts[1]>>

\* Python's  x or None  of a list
OrNone(list) == IF list = <<>> THEN None ELSE list

\* Python's  x or []
OrEmpty(x) == IF x = None THEN <<>> ELSE x

(***************************************************************************)
(* tecken.upload.utils.dump_and_extract.                                   *)
(***************************************************************************)

Archive(name, corrupt, entries) ==
    [name |-> name, corrupt |-> corrupt, entries |-> entries, size |-> Len(entries)]

\* os.path.splitext(name)[1]: from the last "." of the basename on.
SplitExt(name) ==
    LET base == Basename(name)
        dots == { i \in 2..Len(base) : SubSeq(base, i, i) = "." }
    IN  IF dots = {} THEN ""
        ELSE SubSeq(base, CHOOSE i \in dots : \A j \in dots : j <= i, Len(base))

\* Two entries of the same name and different sizes.
DuplicateDifferentSize(entries) ==
    \E i, j \in 1..Len(entries) :
        /\ i < j
        /\ entries[i].name = entries[j].name
        /\ entries[i].size # entries[j].size

\* The entries with every repetition of a name dropped: what is found on
\* disk once the archive is extracted.
RECURSIVE Extracted(_, _)
Extracted(entries, i) ==
    IF i > Len(entries) THEN <<>>
    ELSE IF \E j \in 1..(i - 1) : entries[j].name = entries[i].name
         THEN Extracted(entries, i + 1)
         ELSE <<entries[i]>> \o Extracted(entries, i + 1)

dump_and_extract(archive) ==
    IF ~EndsWith(Lower(archive.name), ".zip")
    THEN [raised |-> "UnrecognizedArchiveFileExtension", arg |-> SplitExt(archive.name)]
    ELSE IF archive.corrupt
    THEN [raised |-> "BadZipfile", arg |-> "File is not a zip file"]
    ELSE IF DuplicateDifferentSize(archive.entries)
    THEN [raised |-> "DuplicateFileDifferentSize",
          arg |-> "The zipfile buffer contains two files both called the same but with different sizes"]
    ELSE [raised |-> None, listing |-> Extracted(archive.entries, 1)]

(***************************************************************************)
(* State.                                                                  *)
(***************************************************************************)

VARIABLES
    settings,   \* django.conf.settings: the configuration read by the code
    args,       \* the arguments of the function called directly
    ret,        \* what that call returned
    pc,         \* where the call, or the request, stands
    request,    \* the HTTP request: FILES, POST, user
    archive,                \* the locals name, size and url of upload_archive
    file_listing,           \* what dump_and_extract returned
    bucket_info,            \* what get_bucket_info returned
    is_try_upload,          \* the local of upload_archive
    upload_obj,             \* the Upload object held by upload_archive
    ledger,                 \* the Upload row in the database
    pool,                   \* the futures submitted, in submission order
    consumed,               \* the futures as_completed has yielded so far
    ignored_keys,
    skipped_keys,
    uploaded_symbol_keys,
    store,      \* the objects in storage: [bucket, key, size]
    calls,      \* storage calls made by the request, by kind
    response,   \* the JsonResponse returned
    trail,      \* the phases the request went through, in order
    store0,     \* the storage when the request was received
    run,        \* the number of the request
    prior,      \* the keys written by the request before this one
    upload_dir, \* the working directory handed to upload_archive
    dirs,       \* the working directories that exist
    session,    \* the remote host as the request used it: the outcome of
                \* UploadByDownloadForm.is_valid and the session.get calls
    users,      \* the user table: id -> row
    auth0,      \* the Auth0 directory: address -> the users found under it
    cache,      \* django.core.cache: user id -> the second its marker expires
    clock,      \* the time, in seconds
    sessions,   \* the session store: session id -> user id, 0 once flushed
    reqs,       \* the requests passing the middleware
    auth0_calls,    \* the calls of is_blocked_in_auth0 made so far
    denied          \* the users a request has found blocked and saved inactive

fnVars   == <<args, ret>>
reqVars  == <<archive, file_listing, bucket_info, is_try_upload, upload_obj, ledger,
              response, trail>>
poolVars == <<pool, consumed, ignored_keys, skipped_keys, uploaded_symbol_keys>>
envVars  == <<store, calls, store0, run, prior>>
dirVars  == <<upload_dir, dirs>>

mwVars == <<users, auth0, cache, clock, sessions, reqs, auth0_calls, denied>>

vars == <<settings, pc, request, fnVars, reqVars, poolVars, envVars, dirVars, session,
          mwVars>>

NoCalls == [head_bucket |-> 0, head_object |-> 0, put_object |-> 0]

\* No form validated and no url fetched.
NoSession == [form |-> None, get |-> <<>>]

\* No request passes the middleware.
NoMiddleware ==
    /\ users = <<>>
    /\ auth0 = <<>>
    /\ cache = <<>>
    /\ clock = 0
    /\ sessions = <<>>
    /\ reqs = <<>>
    /\ auth0_calls = {}
    /\ denied = {}

\* The request state before anything ran.
Fresh ==
    /\ archive = PyNone
    /\ file_listing = <<>>
    /\ bucket_info = PyNone
    /\ is_try_upload = PyNone
    /\ upload_obj = PyNone
    /\ ledger = PyNone
    /\ pool = <<>>
    /\ consumed = {}
    /\ ignored_keys = <<>>
    /\ skipped_keys = <<>>
    /\ uploaded_symbol_keys = <<>>
    /\ calls = NoCalls
    /\ response = PyNone
    /\ trail = <<"Received">>
    /\ session = NoSession
    /\ NoMiddleware

\* No request at all: a function is called directly.
NoRequest ==
    /\ request = PyNone
    /\ Fresh
    /\ store = {}
    /\ store0 = {}
    /\ run = 1
    /\ prior = {}
    /\ upload_dir = 0
    /\ dirs = {}

(***************************************************************************)
(* Bounds and the inputs drawn.                                            *)
(***************************************************************************)

\* Longest member list handed to the validator.
MaxListing == 2

\* Member names: each rule of the validator has names that pass it and
\* names that fail it.
ValidatorNames ==
    { "a/0A/f", "a//f", "a/0G/f", "a^/0A/f", "a/0G/f^", "x-SYMBOLS.txt",
      "readme", "a/f", "a/.DS_Store", ".DS_Store", "a/0A/f/g",
      "bad/0A/f", "bad/.DS_Store", "bad-evil", "a^/0G/.DS_Store" }

SnippetConfs == { <<>>, <<"bad">>, <<"evil", "bad">> }

Member(name, size) == [name |-> name, size |-> size]

RECURSIVE SeqsUpTo(_, _)
SeqsUpTo(S, n) ==
    IF n = 0 THEN { <<>> }
    ELSE LET shorter == SeqsUpTo(S, n - 1)
         IN  shorter \cup { Append(q, x) : q \in { r \in shorter : Len(r) = n - 1 }, x \in S }

UPLOAD_TRY_SYMBOLS_URL == "s3://try"
UPLOAD_DEFAULT_URL == "s3://pub"

\* UPLOAD_URL_EXCEPTIONS configurations: none; a wildcard declared before an
\* exact key; a key written in upper case; two overlapping wildcards.
ExceptionConfs ==
    { <<>>,
      << [key |-> "*@x.io", url |-> "s3://prv1"],
         [key |-> "a@x.io", url |-> "s3://prv2"] >>,
      << [key |-> "A@x.io", url |-> "s3://prv1"] >>,
      << [key |-> "a*", url |-> "s3://prv1"],
         [key |-> "*@x.io", url |-> "s3://prv2"] >> }

Emails == { "a@x.io", "A@x.io", "b@y.io" }

Users ==
    { [email |-> e, is_superuser |-> su, perms |-> ps] :
        e \in Emails, su \in BOOLEAN,
        ps \in { {}, {"upload.upload_symbols"}, {"upload.upload_try_symbols"},
                 {"upload.upload_symbols", "upload.upload_try_symbols"} } }

TryArgs == { PyNone, PyBool(TRUE), PyBool(FALSE), PyStr(""), PyStr("1") }

PreferredArgs == { PyNone, PyStr(""), PyStr("prv1"), PyStr("pub"), PyStr("prv"), PyStr("nope") }

SYMBOL_FILE_PREFIX == "v1"

Conf(snippets, exceptions) ==
    [ DISALLOWED_SYMBOLS_SNIPPETS |-> snippets,
      UPLOAD_URL_EXCEPTIONS       |-> exceptions,
      UPLOAD_TRY_SYMBOLS_URL      |-> UPLOAD_TRY_SYMBOLS_URL,
      UPLOAD_DEFAULT_URL          |-> UPLOAD_DEFAULT_URL,
      SYMBOL_FILE_PREFIX          |-> SYMBOL_FILE_PREFIX,
      SYNCHRONOUS_UPLOAD_FILE_UPLOAD  |-> TRUE,
      UPLOAD_FILE_UPLOAD_MAX_WORKERS  |-> 0 ]

(***************************************************************************)
(* The validator called on a member list.                                  *)
(***************************************************************************)

InitValidate ==
    /\ settings \in { Conf(sn, <<>>) : sn \in SnippetConfs }
    /\ args \in { [fn |-> "check_symbols_archive_file_listing", file_listings |-> l] :
                    l \in SeqsUpTo({ Member(n, 1) : n \in ValidatorNames }, MaxListing) }
    /\ ret = None
    /\ pc = "call"
    /\ NoRequest

CallCheckListing ==
    /\ pc = "call"
    /\ args.fn = "check_symbols_archive_file_listing"
    /\ ret' = check_symbols_archive_file_listing(
                  args.file_listings, settings.DISALLOWED_SYMBOLS_SNIPPETS)
    /\ pc' = "returned"
    /\ UNCHANGED <<settings, session, mwVars, args, request, reqVars, poolVars, envVars, dirVars>>

NextValidate == CallCheckListing

SpecValidate == InitValidate /\ [][NextValidate]_vars

(***************************************************************************)
(* The bucket resolver called on a user.                                   *)
(***************************************************************************)

InitBucket ==
    /\ settings \in { Conf(<<>>, ex) : ex \in ExceptionConfs }
    /\ args \in { [fn |-> "get_bucket_info", user |-> u, try_symbols |-> t,
                   preferred_bucket_name |-> p] :
                    u \in Users, t \in TryArgs, p \in PreferredArgs }
    /\ ret = None
    /\ pc = "call"
    /\ NoRequest

CallGetBucketInfo ==
    /\ pc = "call"
    /\ args.fn = "get_bucket_info"
    /\ ret' = get_bucket_info(args.user, args.try_symbols,
                              args.preferred_bucket_name, settings)
    /\ pc' = "returned"
    /\ UNCHANGED <<settings, session, mwVars, args, request, reqVars, poolVars, envVars, dirVars>>

NextBucket == CallGetBucketInfo

SpecBucket == InitBucket /\ [][NextBucket]_vars

(***************************************************************************)
(* upload_archive: one request, from the view's entry to its response.     *)
(***************************************************************************)

\* Longest archive drawn from PipelineMembers, in entries.
MaxMembers == 2

JsonResponse(body, status) == [status |-> status, body |-> body]

\* @make_tempdir: the directory made for request n, one no request had before.
MakeTempdir(n) == n

\* @make_tempdir: the directory is removed when the view is left, whether it
\* returns or raises.
RemoveTempdir ==
    /\ dirs' = dirs \ {upload_dir}
    /\ UNCHANGED upload_dir

\* The error response returned with the working directory left behind.
Reject_KeepsDirectory(resp) ==
    /\ response' = resp
    /\ pc' = "rejected"
    /\ trail' = Append(trail, "Rejected")
    /\ UNCHANGED dirVars

\* The view returns an error response.
Reject(resp) ==
    /\ response' = resp
    /\ pc' = "rejected"
    /\ trail' = Append(trail, "Rejected")
    /\ RemoveTempdir

\* The except clauses answering 500.
ExtractionError_ServerError(r) ==
    IF r.raised = "UnrecognizedArchiveFileExtension"
    THEN JsonResponse([error |-> "Unrecognized archive file extension \""
                                    \o r.arg \o "\""], 500)
    ELSE JsonResponse([error |-> r.arg], 500)

\* The except clauses around the extraction.
ExtractionError(r) ==
    IF r.raised = "UnrecognizedArchiveFileExtension"
    THEN JsonResponse([error |-> "Unrecognized archive file extension \""
                                    \o r.arg \o "\""], 400)
    ELSE JsonResponse([error |-> r.arg], 400)

\* dump_and_extract on the archive chosen, and what follows from its outcome.
Extract(a, url) ==
    LET r == dump_and_extract(a)
    IN  IF r.raised = None
        THEN /\ file_listing' = r.listing
             /\ archive' = [name |-> a.name, size |-> a.size, url |-> url]
             /\ pc' = "extracted"
             /\ trail' = Append(trail, "Extracted")
             /\ UNCHANGED <<response, dirVars>>
        ELSE /\ Reject(ExtractionError(r))
             /\ UNCHANGED <<file_listing, archive>>

\* The file posted first.
FirstUpload_FirstPosted(files) == files[1]

\* "for name in request.FILES: upload_ = request.FILES[name] ... break".
\* request.FILES is a MultiValueDict: iterating it gives the field names in
\* the order they were first posted, and indexing it by a name gives the
\* last file posted under that name.
FirstUpload(files) ==
    LET name   == files[1].name
        posted == { k \in DOMAIN files : files[k].name = name }
    IN  files[CHOOSE k \in posted : \A j \in posted : j <= k]

\* The for loop over request.FILES, left at its first pass.
ReceiveFiles ==
    /\ pc = "received"
    /\ Len(request.FILES) > 0
    /\ Extract(FirstUpload(request.FILES), None)
    /\ UNCHANGED <<settings, session, mwVars, request, fnVars, bucket_info, is_try_upload,
                   upload_obj, ledger, poolVars, envVars>>

\* The archives a url may serve.
UrlArchives ==
    { Archive("s.zip", FALSE, <<Member("a/0A/f", 1)>>), Archive("s.zip", TRUE, <<>>) }

\* The remote error of the form validation answered as a bad request.
RemoteErrorResponse_BadRequest(exception) ==
    JsonResponse([error |-> exception], 400)

\* "except UploadByDownloadRemoteError as exception: return ... status=500"
RemoteErrorResponse(exception) ==
    JsonResponse([error |-> exception], 500)

\* The for-else branch with a "url" parameter: the form is validated (it
\* asks the remote host for the headers), then the url is fetched.
ReceiveUrl ==
    /\ pc = "received"
    /\ Len(request.FILES) = 0
    /\ Truthy(request.POST.url)
    /\ \E form \in {"remote_error", "invalid", "valid"},
          status_code \in {200, 404}, a \in UrlArchives :
          IF form = "remote_error"
          THEN /\ session' = [session EXCEPT !.form = form]
               /\ Reject(RemoteErrorResponse("UploadByDownloadRemoteError"))
               /\ UNCHANGED <<file_listing, archive>>
          ELSE IF form = "invalid"
          THEN /\ session' = [session EXCEPT !.form = form]
               /\ Reject(JsonResponse([error |-> "form error"], 400))
               /\ UNCHANGED <<file_listing, archive>>
          ELSE /\ session' =
                     [form |-> form,
                      get  |-> Append(session.get,
                                      [url |-> request.POST.url.v,
                                       status_code |-> status_code])]
               /\ IF status_code # 200
                  THEN /\ Reject(JsonResponse(
                             [error |-> "non-200 status code when retrieving "
                                           \o request.POST.url.v], 400))
                       /\ UNCHANGED <<file_listing, archive>>
                  ELSE Extract(a, request.POST.url.v)
    /\ UNCHANGED <<settings, mwVars, request, fnVars, bucket_info, is_try_upload,
                   upload_obj, ledger, poolVars, envVars>>

\* Neither a file nor a url.
ReceiveNothing ==
    /\ pc = "received"
    /\ Len(request.FILES) = 0
    /\ ~Truthy(request.POST.url)
    /\ Reject(JsonResponse(
           [error |-> "Must be multipart form data with at least one file"], 400))
    /\ UNCHANGED <<settings, session, mwVars, request, fnVars, archive, file_listing, bucket_info,
                   is_try_upload, upload_obj, ledger, poolVars, envVars>>

\* "if error:" forgotten: the request goes on whatever the validator says.
IsError_Never(error) == FALSE

\* "if error:" on what check_symbols_archive_file_listing returned.
IsError(error) == error # None /\ Len(error) > 0

Validate ==
    /\ pc = "extracted"
    /\ LET error == check_symbols_archive_file_listing(
                        file_listing, settings.DISALLOWED_SYMBOLS_SNIPPETS)
       IN  IF IsError(error)
           THEN Reject(JsonResponse([error |-> Strip(error)], 400))
           ELSE /\ pc' = "validated"
                /\ trail' = Append(trail, "Validated")
                /\ UNCHANGED <<response, dirVars>>
    /\ UNCHANGED <<settings, session, mwVars, request, fnVars, archive, file_listing, bucket_info,
                   is_try_upload, upload_obj, ledger, poolVars, envVars>>

ResolveBucket ==
    /\ pc = "validated"
    /\ LET r == get_bucket_info(request.user, request.POST.try,
                                request.POST.bucket_name, settings)
       IN  IF r.raised # None
           THEN /\ Reject(JsonResponse([error |-> "No valid bucket"], 403))
                /\ UNCHANGED <<bucket_info, is_try_upload>>
           ELSE /\ bucket_info' = r.bucket
                /\ is_try_upload' =
                       IF request.POST.try = PyNone THEN r.bucket.try_symbols
                       ELSE PyBool(Truthy(request.POST.try))
                /\ pc' = "resolved"
                /\ trail' = Append(trail, "BucketResolved")
                /\ UNCHANGED <<response, dirVars>>
    /\ UNCHANGED <<settings, session, mwVars, request, fnVars, archive, file_listing,
                   upload_obj, ledger, poolVars, envVars>>

\* Upload.objects.create(...): the row as created.  (content_hash, region
\* and endpoint are stored and never read again by the view.)
NewUpload ==
    [ user          |-> request.user.email,
      filename      |-> archive.name,
      bucket_name   |-> bucket_info.name,
      size          |-> archive.size,
      download_url  |-> archive.url,
      try_symbols   |-> is_try_upload,
      skipped_keys  |-> None,
      ignored_keys  |-> None,
      completed_at  |-> None ]

\* bucket_info.exists(), then the two storage clients, the key prefix and
\* Upload.objects.create.
CreateUpload ==
    /\ pc = "resolved"
    /\ calls' = [calls EXCEPT !.head_bucket = @ + 1]
    /\ \E exists \in BOOLEAN :
          IF ~exists
          THEN /\ pc' = "raised"
               /\ trail' = Append(trail, "Failed")
               /\ RemoveTempdir
               /\ UNCHANGED <<upload_obj, ledger>>
          ELSE /\ upload_obj' = NewUpload
               /\ ledger' = NewUpload
               /\ pc' = IF file_listing = <<>> THEN "waiting" ELSE "submitting"
               /\ trail' = Append(trail, "Uploading")
               /\ UNCHANGED dirVars
    /\ UNCHANGED <<settings, session, mwVars, request, fnVars, archive, file_listing, bucket_info,
                   is_try_upload, response, poolVars, store, store0, run, prior>>

(***************************************************************************)
(* tecken.upload.utils.upload_file_upload: one member's task.  It looks    *)
(* the key up with the lookup client, returns None when an object of the   *)
(* same size is there, and otherwise puts the file and returns the         *)
(* FileUpload created.  A lookup that times out counts as "not there".     *)
(***************************************************************************)

HasObject(st, bucket, key, size) ==
    [bucket |-> bucket, key |-> key, size |-> size] \in st

PutObject(st, bucket, key, size) ==
    { o \in st : ~(o.bucket = bucket /\ o.key = key) }
        \cup { [bucket |-> bucket, key |-> key, size |-> size] }

NewFuture(key, member) ==
    [key |-> key, name |-> member.name, size |-> member.size,
     state |-> "queued", result |-> None, timed_out |-> FALSE, existed |-> FALSE]

\* What the lookup of f may come to.
LookupOutcomes(st, bucket, f) ==
    {"timeout", "error"}
        \cup (IF HasObject(st, bucket, f.key, f.size) THEN {"same"} ELSE {"absent"})

AfterLookup(f, outcome) ==
    CASE outcome = "same"    -> [f EXCEPT !.state = "done", !.result = None]
      [] outcome = "absent"  -> [f EXCEPT !.state = "uploading"]
      [] outcome = "timeout" -> [f EXCEPT !.state = "uploading", !.timed_out = TRUE]
      [] outcome = "error"   -> [f EXCEPT !.state = "failed"]

\* The lookup of f made against the storage st: what the task goes on to,
\* and whether the object of f's key and size was there when it was made.
Lookup(st, bucket, f, outcome) ==
    [AfterLookup(f, outcome) EXCEPT !.existed = HasObject(st, bucket, f.key, f.size)]

PutOutcomes == {"ok", "error"}

AfterPut(f, outcome) ==
    IF outcome = "ok" THEN [f EXCEPT !.state = "done", !.result = f.key]
    ELSE [f EXCEPT !.state = "failed"]

Finished(f) == f.state \in {"done", "failed"}

(***************************************************************************)
(* The executor and the two loops of upload_archive.                       *)
(***************************************************************************)

\* The body of "for member in file_listing": one member per step.  With the
\* SynchronousExecutor, submit runs the task before it returns.
Submit ==
    /\ pc = "submitting"
    /\ LET i      == Len(ignored_keys) + Len(pool) + 1
           member == file_listing[i]
           f0     == NewFuture(KeyName(bucket_info, settings, member.name), member)
       IN  /\ IF _ignore_member_file(member.name)
              THEN /\ ignored_keys' = Append(ignored_keys, member.name)
                   /\ UNCHANGED <<pool, store, calls>>
              ELSE /\ UNCHANGED ignored_keys
                   /\ IF settings.SYNCHRONOUS_UPLOAD_FILE_UPLOAD
                      THEN \E lo \in LookupOutcomes(store, bucket_info.name, f0),
                              po \in PutOutcomes :
                              LET f1 == Lookup(store, bucket_info.name, f0, lo)
                              IN  IF f1.state = "uploading"
                                  THEN /\ pool' = Append(pool, AfterPut(f1, po))
                                       /\ store' = IF po = "ok"
                                                   THEN PutObject(store, bucket_info.name,
                                                                  f0.key, f0.size)
                                                   ELSE store
                                       /\ calls' = [calls EXCEPT !.head_object = @ + 1,
                                                                 !.put_object = @ + 1]
                                  ELSE /\ pool' = Append(pool, f1)
                                       /\ calls' = [calls EXCEPT !.head_object = @ + 1]
                                       /\ UNCHANGED store
                      ELSE /\ pool' = Append(pool, f0)
                           /\ UNCHANGED <<store, calls>>
           /\ pc' = IF i = Len(file_listing) THEN "waiting" ELSE "submitting"
    /\ UNCHANGED <<settings, session, mwVars, request, fnVars, reqVars, consumed, skipped_keys,
                   uploaded_symbol_keys, store0, run, prior, dirVars>>

\* ThreadPoolExecutor: the queue is first in first out, and at most
\* max_workers tasks run at a time (0 stands for None: no limit that a
\* listing of this size reaches).
CanStart(i) ==
    /\ pool[i].state = "queued"
    /\ \A j \in 1..(i - 1) : pool[j].state # "queued"
    /\ \/ settings.UPLOAD_FILE_UPLOAD_MAX_WORKERS = 0
       \/ Cardinality({ j \in 1..Len(pool) : pool[j].state = "uploading" })
              < settings.UPLOAD_FILE_UPLOAD_MAX_WORKERS

\* A worker thread takes task i and looks its key up.
TaskLookup(i) ==
    /\ pc \in {"submitting", "waiting", "aborting"}
    /\ ~settings.SYNCHRONOUS_UPLOAD_FILE_UPLOAD
    /\ CanStart(i)
    /\ \E lo \in LookupOutcomes(store, bucket_info.name, pool[i]) :
          pool' = [pool EXCEPT ![i] = Lookup(store, bucket_info.name, pool[i], lo)]
    /\ calls' = [calls EXCEPT !.head_object = @ + 1]
    /\ UNCHANGED <<settings, session, mwVars, pc, request, fnVars, reqVars, consumed, ignored_keys,
                   skipped_keys, uploaded_symbol_keys, store, store0, run, prior,
                   dirVars>>

\* The worker thread of task i puts the file.
TaskPut(i) ==
    /\ pc \in {"submitting", "waiting", "aborting"}
    /\ pool[i].state = "uploading"
    /\ \E po \in PutOutcomes :
          /\ pool' = [pool EXCEPT ![i] = AfterPut(pool[i], po)]
          /\ store' = IF po = "ok"
                      THEN PutObject(store, bucket_info.name, pool[i].key, pool[i].size)
                      ELSE store
    /\ calls' = [calls EXCEPT !.put_object = @ + 1]
    /\ UNCHANGED <<settings, session, mwVars, pc, request, fnVars, reqVars, consumed, ignored_keys,
                   skipped_keys, uploaded_symbol_keys, store0, run, prior, dirVars>>

\* future.result() returning whatever the task came to, its exception lost.
ResultRaises_Swallowed(f) == FALSE

\* future.result() raises what the task raised.
ResultRaises(f) == f.state = "failed"

\* "if file_upload:" taken for every future.
IsCreated_Always(f) == TRUE

\* "if file_upload:" on what the task returned.
IsCreated(f) == f.result # None

\* One pass of "for future in concurrent.futures.as_completed(...)": a
\* finished future not yet yielded.
Consume(i) ==
    /\ pc = "waiting"
    /\ i \notin consumed
    /\ Finished(pool[i])
    /\ consumed' = consumed \cup {i}
    /\ IF ResultRaises(pool[i])
       THEN /\ pc' = "aborting"
            /\ UNCHANGED <<skipped_keys, uploaded_symbol_keys>>
       ELSE /\ UNCHANGED pc
            /\ IF IsCreated(pool[i])
               THEN /\ uploaded_symbol_keys' =
                           Append(uploaded_symbol_keys, SymbolKey(pool[i].name))
                    /\ UNCHANGED skipped_keys
               ELSE /\ skipped_keys' = Append(skipped_keys, pool[i].key)
                    /\ UNCHANGED uploaded_symbol_keys
    /\ UNCHANGED <<settings, session, mwVars, request, fnVars, reqVars, pool, ignored_keys, envVars,
                   dirVars>>

\* The with block left at once: the executor shut down without waiting.
Drain_NoWait ==
    /\ pc = "aborting"
    /\ pc' = "raised"
    /\ trail' = Append(trail, "Failed")
    /\ RemoveTempdir
    /\ UNCHANGED <<settings, session, mwVars, request, fnVars, archive, file_listing, bucket_info,
                   is_try_upload, upload_obj, ledger, response, poolVars, envVars>>

\* The exception leaves the with block: the executor's shutdown waits for
\* every task submitted, then the exception leaves the view.
Drain ==
    /\ pc = "aborting"
    /\ \A i \in 1..Len(pool) : Finished(pool[i])
    /\ pc' = "raised"
    /\ trail' = Append(trail, "Failed")
    /\ RemoveTempdir
    /\ UNCHANGED <<settings, session, mwVars, request, fnVars, archive, file_listing, bucket_info,
                   is_try_upload, upload_obj, ledger, response, poolVars, envVars>>

_serialize_upload(upload) ==
    [ size         |-> upload.size,
      filename     |-> upload.filename,
      bucket       |-> upload.bucket_name,
      download_url |-> upload.download_url,
      try_symbols  |-> upload.try_symbols,
      completed_at |-> upload.completed_at,
      user         |-> upload.user,
      skipped_keys |-> OrEmpty(upload.skipped_keys) ]

\* The loop run over the futures already done when it starts, the others
\* never waited for.
AllYielded_NoWait == \A i \in 1..Len(pool) : Finished(pool[i]) => i \in consumed

\* as_completed ends once it has yielded every future of future_to_key.
AllYielded == consumed = 1..Len(pool)

\* Every future was yielded: the row is updated and the view responds.
Complete ==
    /\ pc = "waiting"
    /\ AllYielded
    /\ ledger' = [ledger EXCEPT !.skipped_keys = OrNone(skipped_keys),
                                !.ignored_keys = OrNone(ignored_keys),
                                !.completed_at = "now"]
    /\ response' = JsonResponse([upload |-> _serialize_upload(upload_obj)], 201)
    /\ pc' = "completed"
    /\ trail' = Append(trail, "Completed")
    /\ RemoveTempdir
    /\ UNCHANGED <<settings, session, mwVars, request, fnVars, archive, file_listing, bucket_info,
                   is_try_upload, upload_obj, poolVars, envVars>>

(***************************************************************************)
(* The requests drawn.                                                     *)
(***************************************************************************)

PipelineMembers ==
    { Member("a/0A/f", 1), Member("a/0A/f", 2), Member("b/1F/g", 1),
      Member("x-symbols.txt", 1), Member("readme", 1) }

\* Archives whose members are ignored at either rule and at any depth, and
\* an archive with a member whose name has an empty first segment.
NamingArchives ==
    { Archive("s.zip", FALSE, << Member("a/.DS_Store", 1),
                                 Member("a/0A/x-SYMBOLS.txt", 1),
                                 Member("b/1F/g", 1) >>),
      Archive("s.zip", FALSE, << Member("/0A/f", 1) >>) }

Archives ==
    { Archive("s.zip", FALSE, e) : e \in SeqsUpTo(PipelineMembers, MaxMembers) }
        \cup { Archive("s.tar", FALSE, <<>>), Archive("s.zip", TRUE, <<>>) }
        \cup NamingArchives

PipelineUsers ==
    { [email |-> "b@y.io", is_superuser |-> FALSE, perms |-> {"upload.upload_symbols"}],
      [email |-> "b@y.io", is_superuser |-> FALSE, perms |-> {"upload.upload_try_symbols"}],
      [email |-> "A@x.io", is_superuser |-> FALSE, perms |-> {"upload.upload_symbols"}] }

Post(url, try, bucket_name) == [url |-> url, try |-> try, bucket_name |-> bucket_name]

Request(files, post, user) == [FILES |-> files, POST |-> post, user |-> user]

\* Requests carrying two files, some with a url as well: under two field
\* names or under one, the other file sound or corrupt.
SeveralFiles ==
    LET A  == Archive("s.zip", FALSE, <<Member("a/0A/f", 1)>>)
        A2 == Archive("s.zip", FALSE, <<Member("b/1F/g", 1), Member("readme", 1)>>)
        B  == Archive("t.zip", FALSE, <<Member("b/1F/g", 1)>>)
        Bc == Archive("t.zip", TRUE, <<>>)
    IN  { <<A, B>>, <<A, Bc>>, <<Bc, A>>, <<A, A2>> }

\* Every archive uploaded by the release user; one archive uploaded under
\* every combination of user, try parameter and bucket name; the requests
\* without a file; and the requests with several files.
Requests ==
    { Request(<<a>>, Post(PyNone, PyNone, PyNone), u) :
        a \in Archives, u \in { v \in PipelineUsers : v.email = "b@y.io" } }
    \cup
    { Request(<<Archive("s.zip", FALSE, <<Member("a/0A/f", 1)>>)>>,
              Post(PyNone, t, b), u) :
        t \in {PyNone, PyStr(""), PyStr("1")},
        b \in {PyNone, PyStr("nope"), PyStr("prv1")},
        u \in PipelineUsers }
    \cup
    { Request(<<>>, Post(url, PyNone, PyNone), u) :
        url \in {PyNone, PyStr("http://h/s.zip")},
        u \in { v \in PipelineUsers : v.perms = {"upload.upload_symbols"} /\ v.email = "b@y.io" } }
    \cup
    { Request(files, Post(url, PyNone, PyNone), u) :
        files \in SeveralFiles,
        url \in {PyNone, PyStr("http://h/s.zip")},
        u \in { v \in PipelineUsers : v.perms = {"upload.upload_symbols"} /\ v.email = "b@y.io" } }

PipelineConf(sync, workers) ==
    [ Conf(<<"bad">>, << [key |-> "*@x.io", url |-> "s3://prv1/pfx"] >>)
        EXCEPT !.SYNCHRONOUS_UPLOAD_FILE_UPLOAD = sync,
               !.UPLOAD_FILE_UPLOAD_MAX_WORKERS = workers ]

PipelineConfs ==
    { PipelineConf(TRUE, 0), PipelineConf(FALSE, 0), PipelineConf(FALSE, 1) }

\* The storage before the request: empty, or holding the object of one
\* member in the public bucket, of the member's size or of another.
PreExisting ==
    { {} } \cup { { [bucket |-> "pub", key |-> "v1/a/0A/f", size |-> sz] } : sz \in {1, 2} }

Init ==
    /\ settings \in PipelineConfs
    /\ request \in Requests
    /\ store \in PreExisting
    /\ store0 = store
    /\ run = 1
    /\ prior = {}
    /\ upload_dir = MakeTempdir(1)
    /\ dirs = {MakeTempdir(1)}
    /\ Fresh
    /\ args = PyNone
    /\ ret = None
    /\ pc = "received"

Next ==
    \/ ReceiveFiles
    \/ ReceiveUrl
    \/ ReceiveNothing
    \/ Validate
    \/ ResolveBucket
    \/ CreateUpload
    \/ Submit
    \/ \E i \in 1..Len(pool) : TaskLookup(i)
    \/ \E i \in 1..Len(pool) : TaskPut(i)
    \/ \E i \in 1..Len(pool) : Consume(i)
    \/ Drain
    \/ Complete

Spec == Init /\ [][Next]_vars

(***************************************************************************)
(* The same request sent again once the view has responded.                *)
(***************************************************************************)

\* Requests in a row.
MaxRuns == 2

\* The objects the tasks of this request have put.
Written == { [key |-> pool[i].key, size |-> pool[i].size] :
                i \in { j \in 1..Len(pool) :
                          pool[j].state = "done" /\ pool[j].result # None } }

Rerun ==
    /\ pc = "completed"
    /\ run < MaxRuns
    /\ run' = run + 1
    /\ upload_dir' = MakeTempdir(run + 1)
    /\ dirs' = dirs \cup {MakeTempdir(run + 1)}
    /\ prior' = Written
    /\ store0' = store
    /\ pc' = "received"
    /\ archive' = PyNone
    /\ file_listing' = <<>>
    /\ bucket_info' = PyNone
    /\ is_try_upload' = PyNone
    /\ upload_obj' = PyNone
    /\ ledger' = PyNone
    /\ pool' = <<>>
    /\ consumed' = {}
    /\ ignored_keys' = <<>>
    /\ skipped_keys' = <<>>
    /\ uploaded_symbol_keys' = <<>>
    /\ calls' = NoCalls
    /\ response' = PyNone
    /\ trail' = <<"Received">>
    /\ session' = NoSession
    /\ UNCHANGED <<settings, mwVars, request, fnVars, store>>

NextRerun == Next \/ Rerun

SpecRerun == Init /\ [][NextRerun]_vars

(***************************************************************************)
(* NotBlockedInAuth0Middleware: requests served at the same time, the      *)
(* cache, the user table and the Auth0 directory they share.               *)
(***************************************************************************)

\* Requests served, at once or one after the other.
MaxRequests == 2

\* The last second the clock of the cache reaches.
MaxClock == 2

UserIds == {1, 2}

SessionIds == {1, 2}

\* django.contrib.auth.models.AnonymousUser
AnonymousUser == [id |-> 0, is_active |-> FALSE, email |-> ""]

\* settings of the middleware
MiddlewareConf(enabled, seconds) ==
    [ ENABLE_AUTH0_BLOCKED_CHECK |-> enabled,
      NOT_BLOCKED_IN_AUTH0_INTERVAL_SECONDS |-> seconds ]

\* "_get_access_token": the token, or Auth0ManagementAPIError raised with
\* the status of the answer.
_get_access_token(status_code) ==
    IF status_code # 200
    THEN [raised |-> "Auth0ManagementAPIError", arg |-> status_code]
    ELSE [raised |-> None, access_token |-> "token"]

\* "find_users": the users the directory holds under the address.
find_users(directory, email, token_status, users_status) ==
    LET access_token == _get_access_token(token_status)
    IN  IF access_token.raised # None THEN access_token
        ELSE IF users_status # 200
        THEN [raised |-> "Auth0ManagementAPIError", arg |-> users_status]
        ELSE [raised |-> None, users |-> directory[email]]

\* "is_blocked_in_auth0": true as soon as one user found is blocked.
is_blocked_in_auth0(directory, email, token_status, users_status) ==
    LET found == find_users(directory, email, token_status, users_status)
    IN  IF found.raised # None THEN found
        ELSE [raised |-> None,
              blocked |-> \E i \in DOMAIN found.users : found.users[i].blocked]

\* cache.get(cache_key): None once the entry has expired or was never set.
CacheGetIsNone(uid) == clock >= cache[uid]

\* A request not yet begun.
IdleRequest ==
    [ pc |-> "idle", sid |-> 0, uid |-> 0, user |-> AnonymousUser,
      later |-> FALSE, called |-> FALSE, found |-> None, cached |-> FALSE,
      logged_out |-> FALSE, raised |-> None, view |-> PyNone ]

\* The url pipeline is not running.
NoPipeline ==
    /\ request = PyNone
    /\ args = PyNone
    /\ ret = None
    /\ archive = PyNone
    /\ file_listing = <<>>
    /\ bucket_info = PyNone
    /\ is_try_upload = PyNone
    /\ upload_obj = PyNone
    /\ ledger = PyNone
    /\ pool = <<>>
    /\ consumed = {}
    /\ ignored_keys = <<>>
    /\ skipped_keys = <<>>
    /\ uploaded_symbol_keys = <<>>
    /\ calls = NoCalls
    /\ response = PyNone
    /\ trail = <<>>
    /\ session = NoSession
    /\ store = {}
    /\ store0 = {}
    /\ run = 1
    /\ prior = {}
    /\ upload_dir = 0
    /\ dirs = {}

pipelineVars ==
    <<settings, pc, request, fnVars, reqVars, poolVars, envVars, dirVars, session>>

\* The users a directory entry may hold: none, one not blocked, or two of
\* which the second is blocked.
DirectoryEntries ==
    { <<>>, <<[blocked |-> FALSE]>>, <<[blocked |-> FALSE], [blocked |-> TRUE]>> }

InitAuth0 ==
    /\ settings \in { MiddlewareConf(e, s) : e \in BOOLEAN, s \in {0, 1} }
    /\ pc = "middleware"
    /\ NoPipeline
    /\ users \in { [ u \in UserIds |->
                       IF u = 1 THEN [id |-> 1, is_active |-> TRUE, email |-> "a@x.io"]
                       ELSE second ] :
                   second \in { [id |-> 2, is_active |-> FALSE, email |-> "b@y.io"],
                                [id |-> 2, is_active |-> TRUE, email |-> ""] } }
    /\ auth0 \in { [ e \in {"a@x.io", "b@y.io", ""} |->
                       IF e = "a@x.io" THEN entry ELSE <<[blocked |-> TRUE]>> ] :
                   entry \in DirectoryEntries }
    /\ cache = [ u \in UserIds |-> 0 ]
    /\ clock = 0
    /\ sessions \in { [ s \in SessionIds |-> s ], [ s \in SessionIds |-> 1 ] }
    /\ reqs = [ r \in 1..MaxRequests |-> IdleRequest ]
    /\ auth0_calls = {}
    /\ denied = {}

\* A request comes in under a session.  __init__ leaves the middleware out
\* when the check is disabled; otherwise __call__ enters process_request,
\* which returns at once for a user who is not active or has no email.
Begin(r, sid) ==
    /\ reqs[r].pc = "idle"
    /\ r > 1 => reqs[r - 1].pc # "idle"
    /\ LET uid  == sessions[sid]
           user == IF uid = 0 THEN AnonymousUser ELSE users[uid]
       IN  reqs' = [reqs EXCEPT ![r] =
               [@ EXCEPT !.sid = sid, !.uid = uid, !.user = user,
                         !.later = uid \in denied,
                         !.pc = IF ~settings.ENABLE_AUTH0_BLOCKED_CHECK THEN "view"
                                ELSE IF ~user.is_active \/ user.email = "" THEN "view"
                                ELSE "get"]]
    /\ UNCHANGED <<pipelineVars, users, auth0, cache, clock, sessions, auth0_calls,
                   denied>>

\* "if cache.get(cache_key) is None:"
CacheGet(r) ==
    /\ reqs[r].pc = "get"
    /\ reqs' = [reqs EXCEPT ![r].pc =
                   IF CacheGetIsNone(reqs[r].user.id) THEN "check" ELSE "view"]
    /\ UNCHANGED <<pipelineVars, users, auth0, cache, clock, sessions, auth0_calls,
                   denied>>

\* "if is_blocked_in_auth0(request.user.email):" the directory is asked;
\* Auth0ManagementAPIError leaves the middleware as it was raised.
Auth0Check(r) ==
    /\ reqs[r].pc = "check"
    /\ \E token_status \in {200, 500}, users_status \in {200, 500} :
          LET user   == reqs[r].user
              answer == is_blocked_in_auth0(auth0, user.email, token_status,
                                            users_status)
          IN  /\ auth0_calls' = auth0_calls \cup
                     { [ user |-> user.id, live |-> ~CacheGetIsNone(user.id),
                         is_active |-> user.is_active, email |-> user.email ] }
              /\ reqs' = [reqs EXCEPT ![r] =
                     IF answer.raised # None
                     THEN [@ EXCEPT !.called = TRUE, !.raised = answer.raised,
                                    !.pc = "done"]
                     ELSE [@ EXCEPT !.called = TRUE,
                                    !.found = IF answer.blocked THEN "blocked"
                                              ELSE "not blocked",
                                    !.pc = IF answer.blocked THEN "blocked"
                                           ELSE "set"]]
    /\ UNCHANGED <<pipelineVars, users, auth0, cache, clock, sessions, denied>>

\* The blocked user made inactive in memory only, the save left out.
Deny_NotSaved(r) ==
    /\ reqs[r].pc = "blocked"
    /\ sessions' = [sessions EXCEPT ![reqs[r].sid] = 0]
    /\ denied' = denied \cup {reqs[r].user.id}
    /\ reqs' = [reqs EXCEPT ![r] =
                   [@ EXCEPT !.user = AnonymousUser, !.logged_out = TRUE,
                             !.raised = "PermissionDenied", !.pc = "done"]]
    /\ UNCHANGED <<pipelineVars, users, auth0, cache, clock, auth0_calls>>

\* The blocked branch: is_active = False, save(), auth.logout(request) and
\* PermissionDenied raised; cache.set is not reached.
Deny(r) ==
    /\ reqs[r].pc = "blocked"
    /\ users' = [users EXCEPT ![reqs[r].user.id] =
                    [reqs[r].user EXCEPT !.is_active = FALSE]]
    /\ sessions' = [sessions EXCEPT ![reqs[r].sid] = 0]
    /\ denied' = denied \cup {reqs[r].user.id}
    /\ reqs' = [reqs EXCEPT ![r] =
                   [@ EXCEPT !.user = AnonymousUser, !.logged_out = TRUE,
                             !.raised = "PermissionDenied", !.pc = "done"]]
    /\ UNCHANGED <<pipelineVars, auth0, cache, clock, auth0_calls>>

\* "cache.set(cache_key, True, NOT_BLOCKED_IN_AUTH0_INTERVAL_SECONDS)", then
\* process_request returns None and __call__ goes on to the view.
CacheSet(r) ==
    /\ reqs[r].pc = "set"
    /\ cache' = [cache EXCEPT ![reqs[r].user.id] =
                    clock + settings.NOT_BLOCKED_IN_AUTH0_INTERVAL_SECONDS]
    /\ reqs' = [reqs EXCEPT ![r] = [@ EXCEPT !.cached = TRUE, !.pc = "view"]]
    /\ UNCHANGED <<pipelineVars, users, auth0, clock, sessions, auth0_calls, denied>>

\* "response = self.get_response(request)": the wrapped view runs with the
\* user the request holds.
GetResponse(r) ==
    /\ reqs[r].pc = "view"
    /\ reqs' = [reqs EXCEPT ![r] =
                   [@ EXCEPT !.view = [is_active |-> reqs[r].user.is_active],
                             !.pc = "done"]]
    /\ UNCHANGED <<pipelineVars, users, auth0, cache, clock, sessions, auth0_calls,
                   denied>>

\* A second passes.
Tick ==
    /\ clock < MaxClock
    /\ clock' = clock + 1
    /\ UNCHANGED <<pipelineVars, users, auth0, cache, sessions, reqs, auth0_calls,
                   denied>>

\* An administrator blocks, in Auth0, the users held under an address.
BlockInAuth0(email) ==
    /\ \E i \in DOMAIN auth0[email] : ~auth0[email][i].blocked
    /\ auth0' = [auth0 EXCEPT ![email] =
                    [ i \in DOMAIN auth0[email] |-> [blocked |-> TRUE] ]]
    /\ UNCHANGED <<pipelineVars, users, cache, clock, sessions, reqs, auth0_calls,
                   denied>>

NextAuth0 ==
    \/ \E r \in 1..MaxRequests, sid \in SessionIds : Begin(r, sid)
    \/ \E r \in 1..MaxRequests : CacheGet(r)
    \/ \E r \in 1..MaxRequests : Auth0Check(r)
    \/ \E r \in 1..MaxRequests : Deny(r)
    \/ \E r \in 1..MaxRequests : CacheSet(r)
    \/ \E r \in 1..MaxRequests : GetResponse(r)
    \/ Tick
    \/ \E email \in DOMAIN auth0 : BlockInAuth0(email)

SpecAuth0 == InitAuth0 /\ [][NextAuth0]_vars

(***************************************************************************)
(* Properties of the validator (under SpecValidate).                       *)
(***************************************************************************)

Returned(fn) == pc = "returned" /\ args.fn = fn

HasSnippet(name) ==
    \E k \in DOMAIN settings.DISALLOWED_SYMBOLS_SNIPPETS :
        Contains(name, settings.DISALLOWED_SYMBOLS_SNIPPETS[k])

\* The names the pattern rules accept, stated from the rules.
AcceptedPattern(name) ==
    LET parts == Split(name)
    IN  \/ parts[Len(parts)] = ".DS_Store"
        \/ /\ Len(parts) = 3
           /\ Chars(parts[1]) \cap IllegalKeyChars = {}
           /\ Chars(parts[3]) \cap IllegalKeyChars = {}
           /\ Chars(parts[2]) \subseteq HexChars
        \/ /\ Len(parts) = 1
           /\ EndsWith(Lower(name), "-symbols.txt")

Violates(name) == HasSnippet(name) \/ ~AcceptedPattern(name)

\* Index of the first member satisfying P, 0 when there is none.
FirstIndex(listing, P(_)) ==
    LET hits == { i \in 1..Len(listing) : P(listing[i].name) }
    IN  IF hits = {} THEN 0 ELSE CHOOSE i \in hits : \A j \in hits : i <= j

\* C1 as stated: whenever some member's name contains a denylisted snippet,
\* an error is returned and its message contains a snippet of such a member,
\* wherever the member stands in the list.
C1_SnippetAlwaysReported ==
    Returned("check_symbols_archive_file_listing") =>
        LET L == args.file_listings
        IN  (\E i \in 1..Len(L) : HasSnippet(L[i].name)) =>
                /\ ret # None
                /\ \E i \in 1..Len(L), k \in DOMAIN settings.DISALLOWED_SYMBOLS_SNIPPETS :
                      /\ Contains(L[i].name, settings.DISALLOWED_SYMBOLS_SNIPPETS[k])
                      /\ Contains(ret, settings.DISALLOWED_SYMBOLS_SNIPPETS[k])

\* C1 amended: whenever some member's name contains a denylisted snippet an
\* error is returned; its message contains a snippet of the first such
\* member provided no member standing before it is rejected by the pattern
\* rules.
C1_SnippetReportedUnlessEarlierRejection ==
    Returned("check_symbols_archive_file_listing") =>
        LET L  == args.file_listings
            i0 == FirstIndex(L, HasSnippet)
        IN  i0 # 0 =>
                /\ ret # None
                /\ (\A j \in 1..(i0 - 1) : AcceptedPattern(L[j].name)) =>
                      \E k \in DOMAIN settings.DISALLOWED_SYMBOLS_SNIPPETS :
                          /\ Contains(L[i0].name, settings.DISALLOWED_SYMBOLS_SNIPPETS[k])
                          /\ Contains(ret, settings.DISALLOWED_SYMBOLS_SNIPPETS[k])

\* The snippet-carrying member stands second, after an accepted member that
\* is ignorable, and the snippet message was returned.
C1_Witness ==
    /\ Returned("check_symbols_archive_file_listing")
    /\ Len(args.file_listings) = 2
    /\ args.file_listings[1].name = "a/.DS_Store"
    /\ args.file_listings[2].name = "bad/.DS_Store"
    /\ settings.DISALLOWED_SYMBOLS_SNIPPETS = <<"evil", "bad">>
    /\ ret = SnippetMessage("bad")

\* C2: no error is returned if and only if every member holds no denylisted
\* snippet and has an ignorable last segment, or three segments with legal
\* first and third and an all-hexadecimal middle, or one segment ending in
\* -symbols.txt whatever the case.
C2_AcceptedIffEveryMemberConforms ==
    Returned("check_symbols_archive_file_listing") =>
        LET L == args.file_listings
        IN  (ret = None) <=>
                \A i \in 1..Len(L) :
                    ~HasSnippet(L[i].name) /\ AcceptedPattern(L[i].name)

\* An archive of one <name>/<hex>/<file> member and one <name>-symbols.txt
\* member was accepted.
C2_Witness ==
    /\ Returned("check_symbols_archive_file_listing")
    /\ Len(args.file_listings) = 2
    /\ args.file_listings[1].name = "a/0A/f"
    /\ args.file_listings[2].name = "x-SYMBOLS.txt"
    /\ ret = None

\* C3: the returned error is the error of the first member, in list order,
\* that violates a rule; and an "Unrecognized file pattern" message names
\* that member verbatim.
C3_FirstViolationWins ==
    Returned("check_symbols_archive_file_listing") =>
        LET L  == args.file_listings
            i0 == FirstIndex(L, Violates)
        IN  /\ i0 = 0 => ret = None
            /\ i0 # 0 =>
                 /\ ret = CheckMember(L[i0].name, settings.DISALLOWED_SYMBOLS_SNIPPETS)
                 /\ ret # None
                 /\ SubSeq(ret, 1, 12) = "Unrecognized" =>
                        EndsWith(ret, "(First unrecognized pattern was "
                                          \o L[i0].name \o ")")

\* Two members violate different rules; the first one's error was returned.
C3_Witness ==
    /\ Returned("check_symbols_archive_file_listing")
    /\ Len(args.file_listings) = 2
    /\ args.file_listings[1].name = "readme"
    /\ args.file_listings[2].name = "a^/0A/f"
    /\ ret = UnrecognizedMessage("readme")

\* The first member of the listing has three segments and none of the
\* denylisted snippets in its name: the rules of the three-segment names
\* decide what is returned for it.
ThreeSegmentsFirst ==
    /\ Returned("check_symbols_archive_file_listing")
    /\ Len(args.file_listings) > 0
    /\ Len(Split(args.file_listings[1].name)) = 3
    /\ ~HasSnippet(args.file_listings[1].name)

IllegalInKey(segment) == Chars(segment) \cap IllegalKeyChars # {}

\* C21 as stated: a three-segment member with an illegal character in its
\* first or third segment is answered by the invalid-character message
\* naming it, whatever its middle segment; with legal first and third
\* segments it is accepted exactly when its middle segment holds no
\* character that is not hexadecimal.
C21_ThreeSegmentRules ==
    ThreeSegmentsFirst =>
        LET name  == args.file_listings[1].name
            parts == Split(name)
        IN  IF IllegalInKey(parts[1]) \/ IllegalInKey(parts[3])
            THEN ret = "Invalid character in filename " \o Repr(name)
            ELSE IF Chars(parts[2]) \subseteq HexChars
                 THEN Len(args.file_listings) = 1 => ret = None
                 ELSE ret = UnrecognizedMessage(name)

\* C21 amended: the same, for a three-segment member whose third segment is
\* not an ignorable filename; one whose third segment is ignorable is
\* accepted whatever its first and middle segments.
C21_ThreeSegmentRulesUnlessIgnorable ==
    ThreeSegmentsFirst =>
        LET name  == args.file_listings[1].name
            parts == Split(name)
        IN  IF parts[3] \in _ignorable_filenames
            THEN Len(args.file_listings) = 1 => ret = None
            ELSE IF IllegalInKey(parts[1]) \/ IllegalInKey(parts[3])
            THEN ret = "Invalid character in filename " \o Repr(name)
            ELSE IF Chars(parts[2]) \subseteq HexChars
                 THEN Len(args.file_listings) = 1 => ret = None
                 ELSE ret = UnrecognizedMessage(name)

\* A member with an illegal character in its third segment and a middle
\* segment that is not hexadecimal got the invalid-character message.
C21_Witness ==
    /\ ThreeSegmentsFirst
    /\ args.file_listings[1].name = "a/0G/f^"
    /\ settings.DISALLOWED_SYMBOLS_SNIPPETS # <<>>
    /\ ret = "Invalid character in filename 'a/0G/f^'"

(***************************************************************************)
(* Properties of the bucket resolver (under SpecBucket).                   *)
(***************************************************************************)

\* The identity's address matches an exception key, exactly or by wildcard.
MatchesException(user) ==
    \E k \in DOMAIN settings.UPLOAD_URL_EXCEPTIONS :
        LET key == settings.UPLOAD_URL_EXCEPTIONS[k].key
        IN  \/ Lower(user.email) = key
            \/ FnMatch(Lower(user.email), Lower(key))

ReturnedBucket == Returned("get_bucket_info") /\ ret.raised = None

\* C9 as stated: every returned bucket whose try flag is true is the
\* try-upload bucket.
C9_TryFlagMeansTryBucket ==
    ReturnedBucket =>
        (Truthy(ret.bucket.try_symbols) =>
            ret.bucket.url = settings.UPLOAD_TRY_SYMBOLS_URL)

\* C9 amended: every returned bucket whose try flag is true is the
\* try-upload bucket, when the identity matches no exception-list entry and
\* no preferred bucket name is supplied.
C9_TryFlagMeansTryBucketWithoutOverride ==
    ReturnedBucket =>
        ((/\ Truthy(ret.bucket.try_symbols)
          /\ ~MatchesException(args.user)
          /\ ~Truthy(args.preferred_bucket_name))
            => ret.bucket.url = settings.UPLOAD_TRY_SYMBOLS_URL)

\* A user outside a non-empty exception list, passing an explicit try string,
\* got the try-upload bucket.
C9_Witness ==
    /\ ReturnedBucket
    /\ settings.UPLOAD_URL_EXCEPTIONS # <<>>
    /\ ~MatchesException(args.user)
    /\ args.try_symbols = PyStr("1")
    /\ args.preferred_bucket_name = PyNone
    /\ ret.bucket = StorageBucket(UPLOAD_TRY_SYMBOLS_URL, PyStr("1"))

HasRelease(user) == user.is_superuser \/ "upload.upload_symbols" \in user.perms

\* C10 as stated: an identity matching no exception-list entry, with no
\* preferred bucket name, gets the public default bucket with the try flag
\* the negation of holding the release-symbols capability.
C10_DefaultBucketForUnlisted ==
    ReturnedBucket =>
        ((/\ ~MatchesException(args.user)
          /\ ~Truthy(args.preferred_bucket_name))
            => /\ ret.bucket.url = settings.UPLOAD_DEFAULT_URL
               /\ ret.bucket.try_symbols = PyBool(~HasRelease(args.user)))

\* C10 amended: such an identity, when no explicit try flag is passed
\* either, gets the try flag the negation of holding the release-symbols
\* capability, and the public default bucket if it holds the capability, the
\* try-upload bucket if it does not.
C10_UnlistedBucketFollowsCapability ==
    ReturnedBucket =>
        ((/\ ~MatchesException(args.user)
          /\ ~Truthy(args.preferred_bucket_name)
          /\ args.try_symbols = PyNone)
            => /\ ret.bucket.try_symbols = PyBool(~HasRelease(args.user))
               /\ ret.bucket.url = IF HasRelease(args.user)
                                   THEN settings.UPLOAD_DEFAULT_URL
                                   ELSE settings.UPLOAD_TRY_SYMBOLS_URL)

\* An unlisted user holding only the try permission got the try bucket, and
\* the flag derived from the permissions.
C10_Witness ==
    /\ ReturnedBucket
    /\ settings.UPLOAD_URL_EXCEPTIONS # <<>>
    /\ ~MatchesException(args.user)
    /\ args.try_symbols = PyNone
    /\ args.preferred_bucket_name = PyNone
    /\ args.user.perms = {"upload.upload_try_symbols"}
    /\ ~args.user.is_superuser
    /\ ret.bucket = StorageBucket(UPLOAD_TRY_SYMBOLS_URL, PyBool(TRUE))

\* The urls the identity is permitted to use: the urls of the exception
\* entries it matches, every exception url for a superuser, otherwise the
\* single public default.
PermittedUrls(user) ==
    LET ex  == settings.UPLOAD_URL_EXCEPTIONS
        own == { ex[k].url : k \in
                   { j \in DOMAIN ex :
                       \/ user.is_superuser
                       \/ Lower(user.email) = Lower(ex[j].key)
                       \/ FnMatch(Lower(user.email), Lower(ex[j].key)) } }
    IN  IF own = {} THEN { settings.UPLOAD_DEFAULT_URL } ELSE own

\* C11: with a preferred bucket name supplied, a bucket is returned only if
\* the name is the bucket of one of the urls the identity is permitted to
\* use, and that url is the one returned; in every other case
\* NoPossibleBucketName is raised.
C11_PreferredNameIsPermittedBucket ==
    (Returned("get_bucket_info") /\ Truthy(args.preferred_bucket_name)) =>
        LET named == { u \in PermittedUrls(args.user) :
                          BucketName(u) = args.preferred_bucket_name.v }
        IN  IF named = {}
            THEN ret.raised = "NoPossibleBucketName"
            ELSE ret.raised = None /\ ret.bucket.url \in named

\* The index of the first element of a non-empty set of indexes.
FirstOf(S) == CHOOSE k \in S : \A j \in S : k <= j

\* C12: with no preferred bucket name, the url is the one of the exception
\* key equal to the lowercased address; otherwise the one of the first
\* exception pattern, in declaration order, that matches the address case
\* insensitively; and the try-upload or default-upload url, by the try
\* flag, only when nothing matches.
C12_ExceptionOverrideDecidesUrl ==
    (ReturnedBucket /\ ~Truthy(args.preferred_bucket_name)) =>
        LET ex    == settings.UPLOAD_URL_EXCEPTIONS
            email == Lower(args.user.email)
            exact == { k \in DOMAIN ex : ex[k].key = email }
            wild  == { k \in DOMAIN ex : FnMatch(email, Lower(ex[k].key)) }
        IN  ret.bucket.url =
                IF exact # {} THEN ex[FirstOf(exact)].url
                ELSE IF wild # {} THEN ex[FirstOf(wild)].url
                ELSE IF Truthy(ret.bucket.try_symbols)
                     THEN settings.UPLOAD_TRY_SYMBOLS_URL
                     ELSE settings.UPLOAD_DEFAULT_URL

\* An address written in upper case matched two overlapping patterns and
\* got the url of the one declared first.
C12_Witness ==
    /\ ReturnedBucket
    /\ args.preferred_bucket_name = PyNone
    /\ args.user.email = "A@x.io"
    /\ Len(settings.UPLOAD_URL_EXCEPTIONS) = 2
    /\ settings.UPLOAD_URL_EXCEPTIONS[1].key = "a*"
    /\ FnMatch("a@x.io", settings.UPLOAD_URL_EXCEPTIONS[2].key)
    /\ ret.bucket.url = settings.UPLOAD_URL_EXCEPTIONS[1].url

\* The url is one of those get_possible_bucket_urls returns for the caller.
IsPossibleUrl(url) ==
    LET urls == get_possible_bucket_urls(args.user, settings)
    IN  \E k \in DOMAIN urls : urls[k] = url

Range(f) == { f[i] : i \in DOMAIN f }

SeqBag(f) == LET S == Range(f)
             IN  [ x \in S |-> Cardinality({ i \in DOMAIN f : f[i] = x }) ]

\* A member lookup or put was started, a future submitted or the row created.
UploadStarted ==
    \/ calls.head_object > 0
    \/ calls.put_object > 0
    \/ pool # <<>>
    \/ ledger # PyNone

\* C4: no member lookup, no put and no ledger row unless the extraction
\* succeeded, the validator returned no error and the bucket was resolved,
\* the phases being passed in the order Received, Extracted, Validated,
\* BucketResolved, Uploading, Completed; and a rejected request made no
\* storage call and created no row.
C4_NoUploadBeforeResolution ==
    /\ UploadStarted =>
          /\ archive # PyNone
          /\ Len(request.FILES) > 0 =>
                 dump_and_extract(FirstUpload(request.FILES)).raised = None
          /\ check_symbols_archive_file_listing(
                 file_listing, settings.DISALLOWED_SYMBOLS_SNIPPETS) = None
          /\ bucket_info # PyNone
          /\ get_bucket_info(request.user, request.POST.try,
                             request.POST.bucket_name, settings).raised = None
          /\ SubSeq(trail, 1, 4) = <<"Received", "Extracted", "Validated", "BucketResolved">>
    /\ pc = "rejected" =>
          /\ calls = NoCalls
          /\ ledger = PyNone
          /\ pool = <<>>
          /\ store = store0
          /\ response.status \in {400, 403, 500}
    /\ pc = "completed" =>
          trail = <<"Received", "Extracted", "Validated", "BucketResolved",
                    "Uploading", "Completed">>

\* A request went through every phase and put two objects.
C4_Witness ==
    /\ pc = "completed"
    /\ calls.put_object = 2
    /\ calls.head_object = 2
    /\ response.status = 201

\* C5: once a member task has raised, the view never responds with success
\* and the row created before the upload phase stays without skipped_keys,
\* ignored_keys and completed_at, and stays there.
C5_FailedTaskFailsBatch ==
    (\E i \in 1..Len(pool) : pool[i].state = "failed") =>
        /\ pc # "completed"
        /\ response = PyNone
        /\ ledger # PyNone
        /\ ledger.skipped_keys = None
        /\ ledger.ignored_keys = None
        /\ ledger.completed_at = None

\* The view raised after one task failed and another had put its object.
C5_Witness ==
    /\ pc = "raised"
    /\ \E i, j \in 1..Len(pool) :
          /\ pool[i].state = "failed"
          /\ pool[j].state = "done"
          /\ pool[j].result # None
    /\ ledger # PyNone
    /\ ledger.completed_at = None

\* C6: when the batch completes, the ignored, skipped and created lists hold
\* together one entry per member of the listing: the ignored names are the
\* names never submitted, and the skipped keys and created symbol keys
\* account, one each, for the members submitted.
C6_EveryMemberAccountedOnce ==
    pc = "completed" =>
        LET names     == [ i \in 1..Len(file_listing) |-> file_listing[i].name ]
            ignored   == SeqBag(ignored_keys)
            submitted == names (-) ignored
            keyOf     == [ i \in 1..Len(pool) |-> pool[i].key ]
            symOf(k)  == SymbolKey(pool[CHOOSE i \in 1..Len(pool) : pool[i].key = k].name)
            skippedSym == [ i \in 1..Len(skipped_keys) |-> symOf(skipped_keys[i]) ]
        IN  /\ Len(ignored_keys) + Len(skipped_keys) + Len(uploaded_symbol_keys)
                  = Len(file_listing)
            /\ ignored \sqsubseteq SeqBag(names)
            /\ Range(skipped_keys) \subseteq Range(keyOf)
            /\ SeqBag(skippedSym) (+) SeqBag(uploaded_symbol_keys)
                  = SeqBag([ i \in 1..Len(pool) |-> SymbolKey(pool[i].name) ])
            /\ BagToSet(SeqBag(names) (-) ignored) = { pool[i].name : i \in 1..Len(pool) }
            /\ Len(pool) + Len(ignored_keys) = Len(file_listing)

\* A completed batch with one member ignored and one created.
C6_Witness ==
    /\ pc = "completed"
    /\ Len(file_listing) = 2
    /\ Len(ignored_keys) = 1
    /\ Len(uploaded_symbol_keys) = 1
    /\ ~settings.SYNCHRONOUS_UPLOAD_FILE_UPLOAD

\* C7 as stated: when the same request is sent again, every key the request
\* before it wrote is reported skipped and no object is put.
C7_SecondRunSkipsAll ==
    (run > 1 /\ pc = "completed") =>
        /\ \A w \in prior : w.key \in Range(skipped_keys)
        /\ calls.put_object = 0

NoLookupTimedOut == \A i \in 1..Len(pool) : ~pool[i].timed_out

\* C7 amended: when the same request is sent again and none of its lookups
\* times out, no object is put, and on completion every key the request
\* before it wrote is reported skipped.
C7_SecondRunSkipsAllUnlessTimeout ==
    (run > 1 /\ NoLookupTimedOut) =>
        /\ calls.put_object = 0
        /\ pc = "completed" => \A w \in prior : w.key \in Range(skipped_keys)

\* A second run completed having skipped the two keys the first had written.
C7_Witness ==
    /\ run = 2
    /\ pc = "completed"
    /\ NoLookupTimedOut
    /\ Cardinality(prior) = 2
    /\ Len(skipped_keys) = 2
    /\ calls.put_object = 0

\* C8: with the destination bucket empty when the request is received, a
\* completed batch has created every member that is not ignored, skipped
\* none and ignored the others, whether the executor is the synchronous one
\* or the thread pool, whatever its number of workers and the order in which
\* its tasks ran and were yielded.
C8_OutcomeIndependentOfExecutor ==
    (/\ pc = "completed"
     /\ { o \in store0 : o.bucket = bucket_info.name } = {}) =>
        LET kept == { i \in 1..Len(file_listing) :
                         ~_ignore_member_file(file_listing[i].name) }
        IN  /\ Range(uploaded_symbol_keys)
                   = { SymbolKey(file_listing[i].name) : i \in kept }
            /\ Len(uploaded_symbol_keys) = Cardinality(kept)
            /\ skipped_keys = <<>>
            /\ Range(ignored_keys)
                   = { file_listing[i].name : i \in (1..Len(file_listing)) \ kept }

\* A thread-pool run on an empty bucket completed with the created list in
\* the reverse of the listing's order: the second task was yielded first.
C8_Witness ==
    /\ pc = "completed"
    /\ store0 = {}
    /\ ~settings.SYNCHRONOUS_UPLOAD_FILE_UPLOAD
    /\ Len(file_listing) = 2
    /\ SymbolKey(file_listing[1].name) # SymbolKey(file_listing[2].name)
    /\ uploaded_symbol_keys = << SymbolKey(file_listing[2].name),
                                 SymbolKey(file_listing[1].name) >>


\* C13: a request that carries a "try" parameter, whatever its value, is a
\* try-symbols upload: the bucket is resolved with the try flag on and the
\* ledger row is created with try_symbols true; the flag is derived from the
\* user's permissions only when the parameter is absent.
C13_TryParameterMeansTryUpload ==
    ledger # PyNone =>
        IF request.POST.try # PyNone
        THEN /\ Truthy(bucket_info.try_symbols)
             /\ ledger.try_symbols = PyBool(TRUE)
        ELSE ledger.try_symbols = PyBool(~HasRelease(request.user))

\* C14: on every successful ingestion the record returned to the caller has
\* the skipped keys of this batch and the completion timestamp the ledger
\* update wrote, which is set.
C14_ResponseReflectsFinishedBatch ==
    pc = "completed" =>
        /\ response.body.upload.skipped_keys = skipped_keys
        /\ response.body.upload.completed_at = ledger.completed_at
        /\ response.body.upload.completed_at # None

\* The futures as_completed has yielded whose task did not fail.
Settled == { i \in consumed : pool[i].state = "done" }

\* The view recorded future i as skipped, as created.
RecordedSkipped(i) == pool[i].key \in Range(skipped_keys)
RecordedCreated(i) == SymbolKey(pool[i].name) \in Range(uploaded_symbol_keys)

\* C15 as stated: a member is skipped if and only if the bucket held an
\* object of its key and size when its existence check was made; in every
\* other case its bytes are written and it is created.
C15_SkippedIffSameObjectThere ==
    \A i \in Settled :
        /\ RecordedSkipped(i) <=> pool[i].existed
        /\ ~pool[i].existed =>
              /\ RecordedCreated(i)
              /\ HasObject(store, bucket_info.name, pool[i].key, pool[i].size)

\* C15 amended: a member is skipped if and only if its existence check found,
\* without timing out, an object of its key and size; in every other case
\* (no object, an object of another size, a check that timed out) its bytes
\* are written and it is created.
C15_SkippedIffSameObjectFound ==
    /\ \A i \in Settled :
          /\ RecordedSkipped(i) <=> (pool[i].existed /\ ~pool[i].timed_out)
          /\ ~RecordedSkipped(i) =>
                /\ RecordedCreated(i)
                /\ HasObject(store, bucket_info.name, pool[i].key, pool[i].size)
    /\ Len(skipped_keys) + Len(uploaded_symbol_keys) = Cardinality(Settled)

\* The bucket held the member's key with another size: the member was
\* written over it and recorded as created.
C15_Witness ==
    /\ pc = "completed"
    /\ store0 = { [bucket |-> "pub", key |-> "v1/a/0A/f", size |-> 2] }
    /\ Len(pool) = 1
    /\ pool[1].key = "v1/a/0A/f"
    /\ pool[1].size = 1
    /\ ~pool[1].existed
    /\ ~pool[1].timed_out
    /\ uploaded_symbol_keys = << <<"a", "0A">> >>
    /\ skipped_keys = <<>>
    /\ store = { [bucket |-> "pub", key |-> "v1/a/0A/f", size |-> 1] }

\* The rule of the uploader's filter, in the words of its contract: the
\* name ends, whatever the case and the depth, in "-symbols.txt", or its
\* last path segment is an ignorable filename.
IgnoredByPolicy(name) ==
    LET n     == Len(name)
        parts == Split(name)
    IN  \/ n >= 12 /\ Lower(SubSeq(name, n - 11, n)) = "-symbols.txt"
        \/ parts[Len(parts)] = ".DS_Store"

\* The names of the first n members that the policy ignores (keeps).
RECURSIVE NamesUpTo(_, _)
NamesUpTo(n, ignored) ==
    IF n = 0 THEN <<>>
    ELSE LET name == file_listing[n].name
         IN  IF IgnoredByPolicy(name) = ignored
             THEN Append(NamesUpTo(n - 1, ignored), name)
             ELSE NamesUpTo(n - 1, ignored)

\* C16: a member ignored by the policy is recorded as ignored and gets no
\* task, hence no existence check and no upload; every other member of the
\* validated listing gets exactly one task, and a storage call is made only
\* by a task that has started.
C16_IgnoredNeverReachStorage ==
    ledger # PyNone =>
        LET done == Len(ignored_keys) + Len(pool)
        IN  /\ done <= Len(file_listing)
            /\ pc \in {"waiting", "aborting", "raised", "completed"}
                  => done = Len(file_listing)
            /\ ignored_keys = NamesUpTo(done, TRUE)
            /\ [ i \in 1..Len(pool) |-> pool[i].name ] = NamesUpTo(done, FALSE)
            /\ calls.head_object
                  = Cardinality({ i \in 1..Len(pool) : pool[i].state # "queued" })
            /\ calls.put_object <= calls.head_object

\* A batch completed with a member ignored for its basename, one ignored for
\* its suffix below two directories and in upper case, and one task.
C16_Witness ==
    /\ pc = "completed"
    /\ ignored_keys = << "a/.DS_Store", "a/0A/x-SYMBOLS.txt" >>
    /\ Len(pool) = 1
    /\ pool[1].name = "b/1F/g"
    /\ calls.head_object = 1

C18_SubmittedTasksDrain ==
    /\ (pc = "raised" /\ pool # <<>>) =>
          /\ \A i \in 1..Len(pool) : Finished(pool[i])
          /\ \E i \in consumed : pool[i].state = "failed"
          /\ response = PyNone
          /\ ledger # PyNone
          /\ ledger.completed_at = None
    /\ pc = "aborting" =>
          /\ \E i \in consumed : pool[i].state = "failed"
          /\ response = PyNone
          /\ ledger.completed_at = None

\* With a single worker the first task failed, and the second, which could
\* only start after it, has put its object before the view was left.
C18_Witness ==
    /\ pc = "raised"
    /\ ~settings.SYNCHRONOUS_UPLOAD_FILE_UPLOAD
    /\ settings.UPLOAD_FILE_UPLOAD_MAX_WORKERS = 1
    /\ Len(pool) = 2
    /\ pool[1].state = "failed"
    /\ consumed = {1}
    /\ pool[2].state = "done"
    /\ pool[2].result # None
    /\ HasObject(store, bucket_info.name, pool[2].key, pool[2].size)
    /\ ~HasObject(store0, bucket_info.name, pool[2].key, pool[2].size)

\* The view has been left: it returned a response or raised.
Left == pc \in {"rejected", "raised", "completed"}

C20_DuplicateConflictOnlyOnDifferentSize ==
    (/\ pc # "received"
     /\ Len(request.FILES) > 0
     /\ FirstUpload(request.FILES).name = "s.zip"
     /\ ~FirstUpload(request.FILES).corrupt) =>
        LET e        == FirstUpload(request.FILES).entries
            conflict == \E i, j \in DOMAIN e :
                            e[i].name = e[j].name /\ e[i].size # e[j].size
        IN  IF conflict
            THEN /\ pc = "rejected"
                 /\ response.status = 400
                 /\ trail = <<"Received", "Rejected">>
                 /\ ledger = PyNone
                 /\ pool = <<>>
                 /\ calls = NoCalls
                 /\ store = store0
            ELSE /\ trail[2] = "Extracted"
                 /\ { file_listing[i].name : i \in DOMAIN file_listing }
                        = { e[i].name : i \in DOMAIN e }
                 /\ \A i, j \in DOMAIN file_listing :
                        file_listing[i].name = file_listing[j].name => i = j

\* An archive holding the same name with two sizes was answered 400 at the
\* extraction.
C20_Witness ==
    /\ pc = "rejected"
    /\ Len(request.FILES) > 0
    /\ FirstUpload(request.FILES).entries = << Member("a/0A/f", 1), Member("a/0A/f", 2) >>
    /\ response.status = 400
    /\ trail = <<"Received", "Rejected">>

\* What the request shows when the archive a, uploaded as a file, is the
\* only one extracted, validated and uploaded: nothing was asked of a remote
\* host, the locals and the listing are those of a, an extraction error is
\* the one a gives, and every task is for a member of a.
OnlyArchive(a) ==
    LET r == dump_and_extract(a)
    IN  /\ session = NoSession
        /\ IF r.raised = None
           THEN /\ archive = [name |-> a.name, size |-> a.size, url |-> None]
                /\ file_listing = r.listing
                /\ trail[2] = "Extracted"
           ELSE /\ pc = "rejected"
                /\ response = ExtractionError(r)
                /\ archive = PyNone
                /\ file_listing = <<>>
        /\ \A i \in DOMAIN pool :
              \E k \in DOMAIN r.listing : pool[i].name = r.listing[k].name
        /\ ledger # PyNone => ledger.filename = a.name /\ ledger.size = a.size

\* C22 as stated: of several uploaded archives only the one posted first is
\* extracted, validated and uploaded, and with an archive uploaded the url
\* of the request is never fetched.
C22_OnlyFirstArchive ==
    (pc # "received" /\ Len(request.FILES) > 0) =>
        OnlyArchive(request.FILES[1])

\* Of the files posted under the field name of the first one, the last.
LastUnderFirstName ==
    LET files == request.FILES
        same  == { k \in DOMAIN files : files[k].name = files[1].name }
    IN  files[CHOOSE k \in same : \A j \in same : k >= j]

\* C22 amended: only one archive is extracted, validated and uploaded, the
\* one request.FILES gives for the first field name, which is the last file
\* posted under that name; and with an archive uploaded the url of the
\* request is neither validated nor fetched.
C22_OnlyArchiveOfFirstField ==
    (pc # "received" /\ Len(request.FILES) > 0) =>
        OnlyArchive(LastUnderFirstName)

\* A request with a sound archive, a corrupt one under another name and a
\* url completed with the member of the sound archive put and no url fetched.
C22_Witness ==
    /\ pc = "completed"
    /\ Len(request.FILES) = 2
    /\ request.FILES[2].corrupt
    /\ Truthy(request.POST.url)
    /\ session.get = <<>>
    /\ Len(pool) = 1
    /\ pool[1].name = "a/0A/f"
    /\ calls.put_object = 1

\* Nothing was extracted, no row was created and no storage call was made.
NothingDone ==
    /\ archive = PyNone
    /\ file_listing = <<>>
    /\ ~("Extracted" \in Range(trail))
    /\ upload_obj = PyNone
    /\ ledger = PyNone
    /\ pool = <<>>
    /\ calls = NoCalls
    /\ store = store0

\* C24: in the url branch, a response to the download with a status other
\* than 200 ends the request with a 400 response and a remote error of the
\* form validation ends it with a 500 response, nothing extracted, no row
\* created and no storage call made in either case; a request with neither
\* a file nor a url ends with the 400 response "Must be multipart form data
\* with at least one file".
C24_UrlFailuresAndEmptyRequest ==
    /\ (session.get # <<>> /\ session.get[1].status_code # 200) =>
          /\ pc = "rejected"
          /\ response.status = 400
          /\ NothingDone
    /\ session.form = "remote_error" =>
          /\ pc = "rejected"
          /\ response.status = 500
          /\ session.get = <<>>
          /\ NothingDone
    /\ (pc # "received" /\ request.FILES = <<>> /\ request.POST.url = PyNone) =>
          /\ pc = "rejected"
          /\ response = [status |-> 400,
                         body |-> [error |-> "Must be multipart form data with at least one file"]]
          /\ session = NoSession
          /\ NothingDone

\* The remote host answered the download with 404, and the request ended
\* with a 400 response naming the url.
C24_Witness ==
    /\ pc = "rejected"
    /\ session.form = "valid"
    /\ session.get = <<[url |-> "http://h/s.zip", status_code |-> 404]>>
    /\ response = [status |-> 400,
                   body |-> [error |-> "non-200 status code when retrieving http://h/s.zip"]]

(***************************************************************************)
(* Properties of NotBlockedInAuth0Middleware (under SpecAuth0).            *)
(***************************************************************************)

\* C25: is_blocked_in_auth0 is never called for a user whose marker is in
\* the cache and has not expired, and never for a request whose user is
\* not active or has no email.
C25_BlockedCheckThrottled ==
    \A c \in auth0_calls : ~c.live /\ c.is_active /\ c.email # ""

\* C26: a request whose check found the user blocked ended with
\* PermissionDenied, its view not run, the user saved inactive, its session
\* flushed and no marker set by it; and a request of that user that began
\* afterwards holds an inactive user, makes no Auth0 call, is not stopped
\* and reaches the view with that inactive user.
C26_BlockedUserStopped ==
    \A r \in DOMAIN reqs :
        /\ (reqs[r].found = "blocked" /\ reqs[r].pc = "done") =>
              /\ reqs[r].raised = "PermissionDenied"
              /\ reqs[r].view = PyNone
              /\ ~users[reqs[r].uid].is_active
              /\ reqs[r].logged_out
              /\ sessions[reqs[r].sid] = 0
              /\ ~reqs[r].cached
        /\ reqs[r].later =>
              /\ ~reqs[r].user.is_active
              /\ ~reqs[r].called
              /\ reqs[r].raised = None
              /\ reqs[r].pc \in {"view", "done"}
              /\ reqs[r].pc = "done" => reqs[r].view = [is_active |-> FALSE]

\* A request found its user blocked and was denied; a request of the same
\* user under another session, begun afterwards, reached the view.
C26_Witness ==
    \E r1, r2 \in DOMAIN reqs :
        /\ reqs[r1].found = "blocked"
        /\ reqs[r1].raised = "PermissionDenied"
        /\ reqs[r2].later
        /\ reqs[r2].uid = reqs[r1].uid
        /\ reqs[r2].pc = "done"
        /\ reqs[r2].view = [is_active |-> FALSE]

====
